---- MODULE Spec2Model ----
(***************************************************************************)
(* A model of literature_manager_v7.py: the citation parser                *)
(* (smart_parse_authors, parse_citation), the DOCX tools (apa_citation,    *)
(* replace_ids, insert_refs) and the library operations of the             *)
(* LiteratureManager class (add_entry, add_from_string, delete_entry,      *)
(* save_changes, auto_save, save_as_txt, load_txt, process_docx,           *)
(* set_style).                                                             *)
(*                                                                         *)
(* A Python str is a sequence of one-character strings.  Two characters    *)
(* of the source that are not ASCII are written by their code point:       *)
(* "U+2013" is the en dash of the pages pattern (line 61) and "U+FF1B"     *)
(* the full-width semicolon of line 16.                                    *)
(***************************************************************************)
EXTENDS Integers, Sequences, FiniteSets, TLC

VARIABLES
    raw,              \* parser: the string handed to the parser
    result,           \* parser: what the call returned, or the exception it raised
    ppc,              \* parser: "input" before the call, then the function called
    doc,              \* docx: the document's paragraphs (doc.paragraphs)
    orig,             \* docx: the paragraphs as they were opened (history)
    id_map,           \* docx: the dict replace_ids returned, in insertion order
    cite,             \* docx: the last string apa_citation returned
    dpc,              \* docx: "opened", "cited" or "processed"
    library,          \* self.library
    current_style,    \* self.current_style
    next_id,          \* self.next_id
    current_txt_path, \* self.current_txt_path
    files,            \* the TXT files on disk, by path
    retired,          \* history: the ids delete_entry removed
    reused            \* history: a creation handed out a retired id

vars == <<raw, result, ppc, doc, orig, id_map, cite, dpc, library, current_style,
          next_id, current_txt_path, files, retired, reused>>

parserVars == <<raw, result, ppc>>
docxVars == <<doc, orig, id_map, cite, dpc>>
managerVars == <<next_id, current_txt_path, files, retired, reused>>

(***************************************************************************)
(* Characters and the str methods the source uses.                         *)
(***************************************************************************)
EnDash == "U+2013"
FullwidthSemicolon == "U+FF1B"

Digits == {"0", "1", "2", "3", "4", "5", "6", "7", "8", "9"}

Letters ==
    {"a", "b", "c", "d", "e", "f", "g", "h", "i", "j", "k", "l", "m",
     "n", "o", "p", "q", "r", "s", "t", "u", "v", "w", "x", "y", "z",
     "A", "B", "C", "D", "E", "F", "G", "H", "I", "J", "K", "L", "M",
     "N", "O", "P", "Q", "R", "S", "T", "U", "V", "W", "X", "Y", "Z"}

\* what str.strip(), str.split() and the pattern \s take for white space
Whitespace == {" ", "\t", "\n", "\r"}

\* the characters of strip(" ,.") at line 18
AuthorTrim == {" ", ",", "."}

\* the character class of the DOI pattern's tail at line 51
DoiChars == Letters \cup Digits \cup {"-", ".", "_", ";", "(", ")", "/", ":"}

StartsWithAt(s, i, pat) ==
    /\ i >= 1
    /\ i + Len(pat) - 1 <= Len(s)
    /\ SubSeq(s, i, i + Len(pat) - 1) = pat

Contains(s, pat) == \E i \in 1..Len(s) : StartsWithAt(s, i, pat)

From(s, i) == SubSeq(s, i, Len(s))

\* str.replace(old, new): the occurrences of old, leftmost first, not overlapping
RECURSIVE ReplaceFrom(_, _, _, _)
ReplaceFrom(s, i, old, new) ==
    IF i > Len(s) THEN <<>>
    ELSE IF StartsWithAt(s, i, old)
         THEN new \o ReplaceFrom(s, i + Len(old), old, new)
         ELSE <<s[i]>> \o ReplaceFrom(s, i + 1, old, new)

Replace(s, old, new) == ReplaceFrom(s, 1, old, new)

\* str.strip(chars)
RECURSIVE LStrip(_, _)
LStrip(s, chars) ==
    IF s # <<>> /\ Head(s) \in chars THEN LStrip(Tail(s), chars) ELSE s

RECURSIVE RStrip(_, _)
RStrip(s, chars) ==
    IF s # <<>> /\ s[Len(s)] \in chars
    THEN RStrip(SubSeq(s, 1, Len(s) - 1), chars)
    ELSE s

StripChars(s, chars) == RStrip(LStrip(s, chars), chars)

Strip(s) == StripChars(s, Whitespace)

\* the least index at or after i where character c stands, 0 when there is none
RECURSIVE IndexFrom(_, _, _)
IndexFrom(s, i, c) ==
    IF i > Len(s) THEN 0
    ELSE IF s[i] = c THEN i ELSE IndexFrom(s, i + 1, c)

\* str.split(c) on a one-character separator: always at least one piece
RECURSIVE Split(_, _)
Split(s, c) ==
    LET k == IndexFrom(s, 1, c)
    IN  IF k = 0 THEN <<s>>
        ELSE <<SubSeq(s, 1, k - 1)>> \o Split(From(s, k + 1), c)

\* str.split(c, 1): cut at the first c only (used where c is known to occur)
SplitOnce(s, c) ==
    LET k == IndexFrom(s, 1, c)
    IN  IF k = 0 THEN <<s>> ELSE <<SubSeq(s, 1, k - 1), From(s, k + 1)>>

\* the length of the run of characters of class cls that starts at index i
RECURSIVE RunLen(_, _, _)
RunLen(s, i, cls) ==
    IF i <= Len(s) /\ s[i] \in cls THEN 1 + RunLen(s, i + 1, cls) ELSE 0

\* the length of the run of characters outside class cls that starts at index i
RECURSIVE RunLenNot(_, _, _)
RunLenNot(s, i, cls) ==
    IF i <= Len(s) /\ s[i] \notin cls THEN 1 + RunLenNot(s, i + 1, cls) ELSE 0

\* str.split() without argument: the white-space separated tokens
RECURSIVE SplitWs(_)
SplitWs(s) ==
    LET t == LStrip(s, Whitespace)
        n == RunLenNot(t, 1, Whitespace)
    IN  IF t = <<>> THEN <<>>
        ELSE <<SubSeq(t, 1, n)>> \o SplitWs(From(t, n + 1))

\* sep.join(toks)
RECURSIVE Join(_, _)
Join(toks, sep) ==
    IF toks = <<>> THEN <<>>
    ELSE IF Len(toks) = 1 THEN toks[1]
    ELSE toks[1] \o sep \o Join(Tail(toks), sep)

\* the strings of xs one after the other
RECURSIVE Concat(_)
Concat(xs) == IF xs = <<>> THEN <<>> ELSE Head(xs) \o Concat(Tail(xs))

\* [f(x) for x in xs if p(x)] for p = "is not empty"
RECURSIVE DropEmpty(_)
DropEmpty(xs) ==
    IF xs = <<>> THEN <<>>
    ELSE IF Head(xs) = <<>> THEN DropEmpty(Tail(xs))
    ELSE <<Head(xs)>> \o DropEmpty(Tail(xs))

\* the least i in lo..hi with P[i], 0 when there is none
LeastIn(lo, hi, P(_)) ==
    IF \E i \in lo..hi : P(i)
    THEN CHOOSE i \in lo..hi : P(i) /\ \A j \in lo..(i - 1) : ~P(j)
    ELSE 0

\* the greatest i in lo..hi with P[i], lo - 1 when there is none
GreatestIn(lo, hi, P(_)) ==
    IF \E i \in lo..hi : P(i)
    THEN CHOOSE i \in lo..hi : P(i) /\ \A j \in (i + 1)..hi : ~P(j)
    ELSE lo - 1

\* str(n) and f"{n}" for n >= 0
DigitOf(d) == CASE d = 0 -> "0" [] d = 1 -> "1" [] d = 2 -> "2" [] d = 3 -> "3"
                [] d = 4 -> "4" [] d = 5 -> "5" [] d = 6 -> "6" [] d = 7 -> "7"
                [] d = 8 -> "8" [] d = 9 -> "9"

RECURSIVE IntToStr(_)
IntToStr(n) ==
    IF n < 10 THEN <<DigitOf(n)>> ELSE IntToStr(n \div 10) \o <<DigitOf(n % 10)>>

ValueOf(c) == CHOOSE d \in 0..9 : DigitOf(d) = c

\* int(s) for a string of decimal digits
RECURSIVE StrToInt(_)
StrToInt(s) ==
    IF Len(s) = 1 THEN ValueOf(s[1])
    ELSE 10 * StrToInt(SubSeq(s, 1, Len(s) - 1)) + ValueOf(s[Len(s)])

(***************************************************************************)
(* smart_parse_authors (lines 13-28).  What a call gives is a record:      *)
(* raised = TRUE stands for the IndexError of toks[-1] at line 25, which   *)
(* nothing in the function catches.                                        *)
(***************************************************************************)
StripEach(xs, chars) == [i \in 1..Len(xs) |-> StripChars(xs[i], chars)]

\* line 16: the separators " and ", " & " and the full-width semicolon become ";"
NormalizeSeparators(s) ==
    Replace(Replace(Replace(s, <<" ", "a", "n", "d", " ">>, <<" ", ";", " ">>),
                    <<" ", "&", " ">>, <<" ", ";", " ">>),
            <<FullwidthSemicolon>>, <<";">>)

\* a slip at line 18: p.strip() for p.strip(" ,."), which keeps the periods
AuthorParts_StripWhitespaceOnly(s) == DropEmpty(StripEach(Split(s, ";"), Whitespace))

\* line 18: [p.strip(" ,.") for p in s.split(";") if p.strip(" ,.")]
AuthorParts(s) == DropEmpty(StripEach(Split(s, ";"), AuthorTrim))

\* lines 21-26, the body of the loop for one part p
AuthorOf(p) ==
    IF Contains(p, <<",">>)
    THEN LET x == SplitOnce(p, ",")
         IN  [raised |-> FALSE, family |-> Strip(x[1]), given |-> Strip(x[2])]
    ELSE LET toks == SplitWs(p)
         IN  IF toks = <<>>
             THEN [raised |-> TRUE, family |-> <<>>, given |-> <<>>]
             ELSE [raised |-> FALSE,
                   family |-> toks[Len(toks)],
                   given |-> Join(SubSeq(toks, 1, Len(toks) - 1), <<" ">>)]

smart_parse_authors(s) ==
    LET parts == AuthorParts(NormalizeSeparators(s))
        each == [i \in 1..Len(parts) |-> AuthorOf(parts[i])]
    IN  IF s = <<>> THEN [raised |-> FALSE, authors |-> <<>>]
        ELSE IF \E i \in 1..Len(each) : each[i].raised
             THEN [raised |-> TRUE, authors |-> <<>>]
             ELSE [raised |-> FALSE,
                   authors |-> [i \in 1..Len(each) |->
                                   [family |-> each[i].family, given |-> each[i].given]]]

(***************************************************************************)
(* parse_citation (lines 34-102).  re.search gives the leftmost match; a   *)
(* greedy quantifier gives up characters only when what follows it fails,  *)
(* a lazy one takes more only then.                                        *)
(***************************************************************************)
\* line 51: 10\.\d{4,9}/[-._;()/:A-Za-z0-9]+ matched at index i.  The digits are
\* followed by "/", so \d{4,9} takes the whole run of digits or the match fails.
DoiLenAt(text, i) ==
    LET r == RunLen(text, i + 3, Digits)
        t == RunLen(text, i + 4 + r, DoiChars)
    IN  IF /\ StartsWithAt(text, i, <<"1", "0", ".">>)
           /\ r >= 4 /\ r <= 9
           /\ StartsWithAt(text, i + 3 + r, <<"/">>)
           /\ t >= 1
        THEN 4 + r + t
        ELSE 0

SearchDoi(text) ==
    LET P(i) == DoiLenAt(text, i) > 0
        i == LeastIn(1, Len(text), P)
    IN  IF i = 0 THEN <<>> ELSE SubSeq(text, i, i + DoiLenAt(text, i) - 1)

\* line 56: https?://[^\s]+ matched at index i
UrlLenAt(text, i) ==
    LET h == IF StartsWithAt(text, i, <<"h", "t", "t", "p", "s", ":", "/", "/">>) THEN 8
             ELSE IF StartsWithAt(text, i, <<"h", "t", "t", "p", ":", "/", "/">>) THEN 7
             ELSE 0
        t == RunLenNot(text, i + h, Whitespace)
    IN  IF h > 0 /\ t >= 1 THEN h + t ELSE 0

SearchUrl(text) ==
    LET P(i) == UrlLenAt(text, i) > 0
        i == LeastIn(1, Len(text), P)
    IN  IF i = 0 THEN <<>> ELSE SubSeq(text, i, i + UrlLenAt(text, i) - 1)

\* line 61: \d{1,5}\s*[-\u2013]\s*\d{1,5} matched at index i.  The first digits
\* are followed by white space or a dash, so they are the whole run of digits
\* from i, of at most 5; the last \d{1,5} takes up to 5 digits.
PagesLenAt(text, i) ==
    LET r1 == RunLen(text, i, Digits)
        w1 == RunLen(text, i + r1, Whitespace)
        d  == i + r1 + w1
        w2 == RunLen(text, d + 1, Whitespace)
        r2 == RunLen(text, d + 1 + w2, Digits)
    IN  IF /\ r1 >= 1 /\ r1 <= 5
           /\ d <= Len(text) /\ text[d] \in {"-", EnDash}
           /\ r2 >= 1
        THEN r1 + w1 + 1 + w2 + (IF r2 > 5 THEN 5 ELSE r2)
        ELSE 0

\* lines 61-63: the match with its " " removed, "" without a match
SearchPages(text) ==
    LET P(i) == PagesLenAt(text, i) > 0
        i == LeastIn(1, Len(text), P)
    IN  IF i = 0 THEN <<>>
        ELSE Replace(SubSeq(text, i, i + PagesLenAt(text, i) - 1), <<" ">>, <<>>)

\* 19\d{2}|20\d{2} at index i
YearAt(text, i) ==
    /\ \/ StartsWithAt(text, i, <<"1", "9">>)
       \/ StartsWithAt(text, i, <<"2", "0">>)
    /\ i + 3 <= Len(text)
    /\ text[i + 2] \in Digits
    /\ text[i + 3] \in Digits

\* lines 84 and 98: re.search(r"(19\d{2}|20\d{2})", text)
SearchYear(text) ==
    LET P(i) == YearAt(text, i)
        i == LeastIn(1, Len(text), P)
    IN  IF i = 0 THEN <<>> ELSE SubSeq(text, i, i + 3)

\* lines 36-48: the record parse_citation starts from
EmptyRecord ==
    [authors |-> <<>>, title |-> <<>>, journal |-> <<>>, volume |-> <<>>,
     issue |-> <<>>, pages |-> <<>>, year |-> <<>>, doi |-> <<>>, url |-> <<>>,
     raw_text |-> <<>>, files |-> <<>>]

\* an exception leaving the function: there is no returned value
IndexError == [raised |-> TRUE]

Returned(rec) == [raised |-> FALSE, record |-> rec]

\* lines 66-69, the APA pattern
\*   ^(authors .+?)\s*\((year)\)\.\s*(title .+?)\.\s*(rest .+)$
\* with the authors group being text[1..a]: the index where "(" has to stand
\* (\s* is followed by "(", so it takes the whole run of white space)
ApaParen(text, a) == a + 1 + RunLen(text, a + 1, Whitespace)

ApaHead(text, a) ==
    LET p == ApaParen(text, a)
    IN  /\ StartsWithAt(text, p, <<"(">>)
        /\ YearAt(text, p + 1)
        /\ StartsWithAt(text, p + 5, <<")", ".">>)

\* the title group starting at index s: .+? stops at the first "." after at least
\* one character that leaves a character for the rest group; 0 when there is none
ApaDot(text, s) == LeastIn(s + 1, Len(text) - 1, LAMBDA d : text[d] = ".")

\* where the title group starts: the \s* before it is greedy, so it gives back
\* white space only while no title can be matched; 0 when none can
ApaTitleStart(text, a) ==
    LET q == ApaParen(text, a) + 7
        w == RunLen(text, q, Whitespace)
        s == GreatestIn(q, q + w, LAMBDA k : ApaDot(text, k) > 0)
    IN  IF s < q THEN 0 ELSE s

ApaMatches(text, a) == ApaHead(text, a) /\ ApaTitleStart(text, a) > 0

\* the authors group is lazy: the least a the pattern matches with, 0 for no match
ApaAuthorsEnd(text) == LeastIn(1, Len(text), LAMBDA a : ApaMatches(text, a))

\* lines 70-75: the record of a match whose authors group is text[1..a]
ParseApa(text, base, a) ==
    LET p  == ApaParen(text, a)
        s  == ApaTitleStart(text, a)
        d  == ApaDot(text, s)
        r  == d + 1 + RunLen(text, d + 1, Whitespace)
        au == smart_parse_authors(SubSeq(text, 1, a))
    IN  IF au.raised THEN IndexError
        ELSE Returned([base EXCEPT
                 !.authors = au.authors,
                 !.year = SubSeq(text, p + 1, p + 4),
                 !.title = Strip(SubSeq(text, s, d - 1)),
                 !.journal = Strip(From(text, IF r > Len(text) THEN Len(text) ELSE r))])

\* lines 78-87: the text cut at its periods
ParseSentences(text, base, seg) ==
    LET au == smart_parse_authors(seg[1])
    IN  IF au.raised THEN IndexError
        ELSE Returned([base EXCEPT
                 !.authors = au.authors,
                 !.title = seg[2],
                 !.journal = IF Len(seg) >= 3 THEN seg[3] ELSE <<>>,
                 !.year = SearchYear(text)])

\* lines 90-102: the text cut at its commas
ParseCommas(text, base, parts) ==
    LET au == IF Len(parts) >= 1 THEN smart_parse_authors(parts[1])
              ELSE [raised |-> FALSE, authors |-> <<>>]
    IN  IF au.raised THEN IndexError
        ELSE Returned([base EXCEPT
                 !.authors = au.authors,
                 !.title = IF Len(parts) >= 2 THEN parts[2] ELSE <<>>,
                 !.journal = IF Len(parts) >= 3 THEN parts[3] ELSE <<>>,
                 !.year = SearchYear(text)])

\* the stage that handles a text: 1 the APA pattern, 2 the periods, 3 the commas
StageOf(text) ==
    IF ApaAuthorsEnd(text) > 0 THEN 1
    ELSE IF Len(DropEmpty(StripEach(Split(text, "."), Whitespace))) >= 2 THEN 2
    ELSE 3

\* line 35
NormalizedText(s) == Strip(Replace(s, <<"\n">>, <<" ">>))

parse_citation(s) ==
    LET text  == NormalizedText(s)
        base  == [EmptyRecord EXCEPT
                    !.raw_text = Strip(s),
                    !.doi = SearchDoi(text),
                    !.url = SearchUrl(text),
                    !.pages = SearchPages(text)]
        stage == StageOf(text)
    IN  IF stage = 1 THEN ParseApa(text, base, ApaAuthorsEnd(text))
        ELSE IF stage = 2
             THEN ParseSentences(text, base, DropEmpty(StripEach(Split(text, "."), Whitespace)))
             ELSE ParseCommas(text, base, DropEmpty(StripEach(Split(text, ","), Whitespace)))

(***************************************************************************)
(* The DOCX tools: apa_citation, replace_ids, insert_refs (lines 108-147). *)
(* A paragraph is [kind, text]; a library entry is a parser record with an *)
(* id; the dict id_map is the sequence of its items in insertion order.    *)
(***************************************************************************)
\* e["id"] = ... on a parser record (lines 292-305, 329)
WithId(rec, id) ==
    [k \in DOMAIN rec \cup {"id"} |-> IF k = "id" THEN id ELSE rec[k]]

\* a slip in apa_citation: the two-author case left out
apa_citation_NoPairCase(entry) ==
    IF entry.authors = <<>>
    THEN <<"(", "U", "n", "k", "n", "o", "w", "n", ",", " ">> \o entry.year \o <<")">>
    ELSE IF Len(entry.authors) = 1
    THEN <<"(">> \o entry.authors[1].family \o <<",", " ">> \o entry.year \o <<")">>
    ELSE <<"(">> \o entry.authors[1].family
            \o <<" ", "e", "t", " ", "a", "l", ".", ",", " ">> \o entry.year \o <<")">>

\* lines 108-115
apa_citation(entry) ==
    IF entry.authors = <<>>
    THEN <<"(", "U", "n", "k", "n", "o", "w", "n", ",", " ">> \o entry.year \o <<")">>
    ELSE IF Len(entry.authors) = 1
    THEN <<"(">> \o entry.authors[1].family \o <<",", " ">> \o entry.year \o <<")">>
    ELSE IF Len(entry.authors) = 2
    THEN <<"(">> \o entry.authors[1].family \o <<" ", "&", " ">>
            \o entry.authors[2].family \o <<",", " ">> \o entry.year \o <<")">>
    ELSE <<"(">> \o entry.authors[1].family
            \o <<" ", "e", "t", " ", "a", "l", ".", ",", " ">> \o entry.year \o <<")">>

IdOpen == <<"[", "i", "d", ":">>

\* f"[id:{rid}]" (line 135)
Token(rid) == IdOpen \o rid \o <<"]">>

\* line 123: re.findall(r"\[id:(.*?)\]", text) from index i on: the matches left to
\* right, not overlapping; .*? runs to the first "]" and does not cross a line break
RECURSIVE FindAllFrom(_, _)
FindAllFrom(text, i) ==
    IF i > Len(text) THEN <<>>
    ELSE LET k == IndexFrom(text, i + 4, "]")
             n == IndexFrom(text, i + 4, "\n")
         IN  IF StartsWithAt(text, i, IdOpen) /\ k > 0 /\ (n = 0 \/ n > k)
             THEN <<SubSeq(text, i + 4, k - 1)>> \o FindAllFrom(text, k + 1)
             ELSE FindAllFrom(text, i + 1)

FindAllIds(text) == FindAllFrom(text, 1)

\* the raw ids of all the paragraphs, in the order lines 122-124 meet them
AllIds(paragraphs) == Concat([i \in 1..Len(paragraphs) |-> FindAllIds(paragraphs[i].text)])

InMap(map, rid) == \E j \in 1..Len(map) : map[j].rid = rid

\* a slip in the numbering: the counter moves at every token, known or not
RECURSIVE NumberIds_CountEveryToken(_, _, _)
NumberIds_CountEveryToken(ids, map, counter) ==
    IF ids = <<>> THEN map
    ELSE IF InMap(map, Head(ids))
         THEN NumberIds_CountEveryToken(Tail(ids), map, counter + 1)
         ELSE NumberIds_CountEveryToken(Tail(ids),
                  Append(map, [rid |-> Head(ids), num |-> counter]), counter + 1)

\* lines 124-127: the loop over the ids met, id_map and counter carried along
RECURSIVE NumberIds(_, _, _)
NumberIds(ids, map, counter) ==
    IF ids = <<>> THEN map
    ELSE IF InMap(map, Head(ids))
         THEN NumberIds(Tail(ids), map, counter)
         ELSE NumberIds(Tail(ids),
                  Append(map, [rid |-> Head(ids), num |-> counter]), counter + 1)

\* next((x for x in library if x["id"] == rid), None): the index of the first
\* entry with that id, 0 for None (lines 131, 143)
Lookup(lib, rid) == LeastIn(1, Len(lib), LAMBDA i : lib[i].id = rid)

\* line 134
Replacement(entry, num, style) ==
    IF style = "APA7" THEN apa_citation(entry) ELSE <<"[">> \o IntToStr(num) \o <<"]">>

\* lines 130-135 for one paragraph: the items of id_map in order, each replace
\* working on the text the replaces before it left
RECURSIVE SubstituteIds(_, _, _, _)
SubstituteIds(text, map, lib, style) ==
    IF map = <<>> THEN text
    ELSE LET e == Lookup(lib, Head(map).rid)
         IN  SubstituteIds(
                 IF e = 0 THEN text
                 ELSE Replace(text, Token(Head(map).rid),
                              Replacement(lib[e], Head(map).num, style)),
                 Tail(map), lib, style)

\* lines 118-137: the id_map returned and the paragraphs as the loop leaves them
replace_ids(paragraphs, lib, style) ==
    LET map == NumberIds(AllIds(paragraphs), <<>>, 1)
    IN  [id_map |-> map,
         paragraphs |-> [i \in 1..Len(paragraphs) |->
             [paragraphs[i] EXCEPT !.text = SubstituteIds(@, map, lib, style)]]]

\* sorted(items, key=lambda x: x[1]): a stable insertion into ascending numbers
RECURSIVE InsertByNum(_, _)
InsertByNum(sorted, item) ==
    IF sorted = <<>> THEN <<item>>
    ELSE IF Head(sorted).num <= item.num
         THEN <<Head(sorted)>> \o InsertByNum(Tail(sorted), item)
         ELSE <<item>> \o sorted

RECURSIVE SortByNum(_)
SortByNum(items) ==
    IF items = <<>> THEN <<>>
    ELSE InsertByNum(SortByNum(SubSeq(items, 1, Len(items) - 1)), items[Len(items)])

\* line 141: the heading's text, "References" or the four characters
\* U+53C2 U+8003 U+6587 U+732E
HeadingText(style) ==
    IF style = "APA7" THEN <<"R", "e", "f", "e", "r", "e", "n", "c", "e", "s">>
    ELSE <<"U+53C2", "U+8003", "U+6587", "U+732E">>

\* line 146: f"[{num}] {e['title']}. {e['journal']} ({e['year']})."
ReferenceLine(num, e) ==
    <<"[">> \o IntToStr(num) \o <<"]", " ">> \o e.title \o <<".", " ">> \o e.journal
        \o <<" ", "(">> \o e.year \o <<")", ".">>

\* a slip in insert_refs: the lines numbered 1, 2, ... as they are written
RECURSIVE ReferenceLines_Renumbered(_, _)
ReferenceLines_Renumbered(items, lib) ==
    IF items = <<>> THEN <<>>
    ELSE LET rest == ReferenceLines_Renumbered(SubSeq(items, 1, Len(items) - 1), lib)
             e == Lookup(lib, items[Len(items)].rid)
         IN  IF e = 0 THEN rest
             ELSE Append(rest, [kind |-> "paragraph",
                                text |-> ReferenceLine(Len(rest) + 1, lib[e])])

\* lines 142-147: the paragraphs added for the sorted items
RECURSIVE ReferenceLines(_, _)
ReferenceLines(items, lib) ==
    IF items = <<>> THEN <<>>
    ELSE LET e == Lookup(lib, Head(items).rid)
         IN  (IF e = 0 THEN <<>>
              ELSE << [kind |-> "paragraph", text |-> ReferenceLine(Head(items).num, lib[e])] >>)
             \o ReferenceLines(Tail(items), lib)

\* lines 140-147: the document's paragraphs after the call
insert_refs(paragraphs, lib, map, style) ==
    paragraphs
        \o << [kind |-> "heading", text |-> HeadingText(style)] >>
        \o ReferenceLines(SortByNum(map), lib)

(***************************************************************************)
(* The library operations of LiteratureManager (lines 291-335, 378-413,    *)
(* 499-532, 537-555).  A TXT file holds one JSON object per line;          *)
(* json.loads(json.dumps(e)) gives back the strings and lists of e as they *)
(* were, so a file is the sequence of the records written.                 *)
(***************************************************************************)
\* f"{n:03d}": at least three digits, zeros in front
RECURSIVE ZeroPad(_, _)
ZeroPad(digits, width) ==
    IF Len(digits) >= width THEN digits ELSE ZeroPad(<<"0">> \o digits, width)

\* f"ref{n:03d}" (lines 293, 329)
FormatId(n) == <<"r", "e", "f">> \o ZeroPad(IntToStr(n), 3)

\* int(e["id"][3:]) (line 528), for an id of the form refNNN
IdNumber(id) == StrToInt(From(id, 4))

RECURSIVE MaxOf(_)
MaxOf(ns) ==
    IF ns = <<>> THEN 0
    ELSE LET m == MaxOf(Tail(ns)) IN IF Head(ns) > m THEN Head(ns) ELSE m

\* a slip at line 528: the number of records for the largest number
NextIdAfterLoad_CountsRecords(lines) == Len(lines) + 1

\* line 528: max([int(e["id"][3:]) for e in self.library] + [0]) + 1
NextIdAfterLoad(lines) ==
    MaxOf([i \in 1..Len(lines) |-> IdNumber(lines[i].id)] \o <<0>>) + 1

NoPath == "None"

\* lines 499-509, with the answer of the save dialog ("" when it is cancelled):
\* the path the library is written to, NoPath when nothing is written
SavePath(path, answer) ==
    IF path # NoPath THEN path
    ELSE IF answer = "" THEN NoPath ELSE answer

\* lines 507-509: the files after auto_save has run on library lib
Saved(fs, path, answer, lib) ==
    IF SavePath(path, answer) = NoPath THEN fs
    ELSE [fs EXCEPT ![SavePath(path, answer)] =
             [exists |-> TRUE, lines |-> lib]]

\* lines 400-408: the authors typed into the form
FormAuthorOf(p) ==
    IF Contains(p, <<",">>)
    THEN LET x == SplitOnce(p, ",")
         IN  [family |-> Strip(x[1]), given |-> Strip(x[2])]
    ELSE LET toks == SplitWs(p)
         IN  [family |-> toks[Len(toks)],
              given |-> Join(SubSeq(toks, 1, Len(toks) - 1), <<" ">>)]

FormAuthors(typed) ==
    LET parts == DropEmpty(StripEach(Split(Strip(typed), ";"), Whitespace))
    IN  IF Strip(typed) = <<>> THEN <<>>
        ELSE [i \in 1..Len(parts) |-> FormAuthorOf(parts[i])]

\* lines 386-409: the entry with the form's fields written into it
Edited(e, form) ==
    [e EXCEPT !.title = Strip(form.title),
              !.journal = Strip(form.journal),
              !.volume = Strip(form.volume),
              !.issue = Strip(form.issue),
              !.pages = Strip(form.pages),
              !.year = Strip(form.year),
              !.doi = Strip(form.doi),
              !.url = Strip(form.url),
              !.raw_text = Strip(form.raw_text),
              !.authors = FormAuthors(form.authors)]

\* list.pop(index)
RemoveAt(xs, i) == SubSeq(xs, 1, i - 1) \o SubSeq(xs, i + 1, Len(xs))

(***************************************************************************)
(* The parser's specification: a string is drawn, and parse_citation or    *)
(* smart_parse_authors is called on it.                                    *)
(***************************************************************************)
MaxParserFragments == 4

\* the pieces the drawn strings are made of
ParserFragments ==
    << <<"S", "m", "i", "t", "h", ",", " ", "J", ".">>,
       <<";">>,
       <<" ">>,
       <<"\t">>,
       <<" ", "(", "1", "9", "9", "5", ")", ".", " ">>,
       <<"T", "i", "t", "l", "e", ".", " ">>,
       <<"1", "2">>,
       <<"-">>,
       <<EnDash>>,
       <<" ", "a", "n", "d", " ">> >>

Smith == <<"S", "m", "i", "t", "h">>

Doe == <<"D", "o", "e">>

SmithDoe ==
    <<"S", "m", "i", "t", "h", ",", " ", "J", ".", ";", " ", "D", "o", "e", ",", " ", "A", ".">>

Reeves ==
    <<"R", "e", "e", "v", "e", "s", ",", " ", "C", ".", " ", "R", ".", " ",
      "(", "1", "9", "9", "5", ")", ".", " ",
      "G", "e", "n", "e", "t", "i", "c", " ", "a", "l", "g", "o", "r", "i", "t", "h", "m", "s", ".", " ",
      "E", "n", "g", "i", "n", "e", "e", "r", "i", "n", "g", ".">>

PagesExample == <<"p", "p", ".", " ", "1", "2", "3", " ", EnDash, " ", "4", "5", "6">>

LinksExample ==
    <<"s", "e", "e", " ", "h", "t", "t", "p", ":", "/", "/", "a", ".", "b", "/", "c", " ",
      "1", "0", ".", "1", "0", "0", "0", "/", "x", "y", "z", "1", "2", "3", ".">>

ParserExamples ==
    {SmithDoe, Reeves, PagesExample, LinksExample,
     <<"J", ".", " ", "S", "m", "i", "t", "h", " ", "a", "n", "d", " ", "A", ".", " ", "D", "o", "e">>}

\* every string made of at most n pieces of frags
StringsOf(frags, n) ==
    {Concat([i \in 1..Len(f) |-> frags[f[i]]]) :
        f \in UNION {[1..k -> 1..Len(frags)] : k \in 0..n}}

ParserInputs == StringsOf(ParserFragments, MaxParserFragments) \cup ParserExamples

ParserIdle == raw = <<>> /\ result = [raised |-> FALSE] /\ ppc = "idle"

DocxIdle == doc = <<>> /\ orig = <<>> /\ id_map = <<>> /\ cite = <<>> /\ dpc = "closed"

ManagerIdle ==
    /\ library = <<>>
    /\ current_style = "APA7"
    /\ next_id = 1
    /\ current_txt_path = "None"
    /\ files = <<>>
    /\ retired = {}
    /\ reused = FALSE

InitParser ==
    /\ raw \in ParserInputs
    /\ result = [raised |-> FALSE]
    /\ ppc = "input"
    /\ DocxIdle
    /\ ManagerIdle

ParseCitation ==
    /\ ppc = "input"
    /\ result' = parse_citation(raw)
    /\ ppc' = "parse_citation"
    /\ UNCHANGED <<raw, docxVars, library, current_style, managerVars>>

SmartParseAuthors ==
    /\ ppc = "input"
    /\ result' = smart_parse_authors(raw)
    /\ ppc' = "smart_parse_authors"
    /\ UNCHANGED <<raw, docxVars, library, current_style, managerVars>>

NextParser == ParseCitation \/ SmartParseAuthors

SpecParser == InitParser /\ [][NextParser]_vars

(***************************************************************************)
(* The operations of the class, as actions.                                *)
(***************************************************************************)
MaxNextId == 3
MaxLibrary == 2

Paths == {"lib.txt", "copy.txt"}

\* what a save dialog answers: a path, or "" when it is cancelled
DialogAnswers == Paths \cup {""}

\* what the add dialog may be given: a citation, a citation whose author part
\* holds a tab between two semicolons, and nothing
TypedCitations ==
    { <<"S", "m", "i", "t", "h", ",", " ", "J", ".", " ", "(", "1", "9", "9", "5", ")", ".",
        " ", "T", "i", "t", "l", "e", ".", " ", "1", "2">>,
      <<"A", ";", "\t", ";", "B", ".", " ", "T">>,
      <<>> }

\* parse_citation on each of them
Parsed == [typed \in TypedCitations |-> parse_citation(typed)]

\* lines 553-555
set_style(style) ==
    /\ current_style' = style
    /\ UNCHANGED <<parserVars, docxVars, library, managerVars>>

\* lines 291-310; auto_save's dialog answers `answer`
add_entry(answer) ==
    /\ next_id <= MaxNextId
    /\ Len(library) < MaxLibrary
    /\ LET e == WithId(EmptyRecord, FormatId(next_id))
       IN  /\ library' = Append(library, e)
           /\ next_id' = next_id + 1
           /\ current_txt_path' = SavePath(current_txt_path, answer)
           /\ files' = Saved(files, current_txt_path, answer, Append(library, e))
           /\ reused' = (reused \/ e.id \in retired)
    /\ UNCHANGED <<parserVars, docxVars, current_style, retired>>

\* lines 312-321; the tree's selection is row i
delete_entry(i, answer) ==
    /\ i \in 1..Len(library)
    /\ library' = RemoveAt(library, i)
    /\ current_txt_path' = SavePath(current_txt_path, answer)
    /\ files' = Saved(files, current_txt_path, answer, RemoveAt(library, i))
    /\ retired' = retired \cup {library[i].id}
    /\ UNCHANGED <<parserVars, docxVars, current_style, next_id, reused>>

\* lines 323-335; the dialog gives `typed`.  An exception of parse_citation
\* leaves the handler before anything is changed.
add_from_string(typed, answer) ==
    /\ typed # <<>>
    /\ next_id <= MaxNextId
    /\ Len(library) < MaxLibrary
    /\ LET r == Parsed[typed]
       IN  IF r.raised THEN UNCHANGED vars
           ELSE LET e == WithId(r.record, FormatId(next_id))
                IN  /\ library' = Append(library, e)
                    /\ next_id' = next_id + 1
                    /\ current_txt_path' = SavePath(current_txt_path, answer)
                    /\ files' = Saved(files, current_txt_path, answer, Append(library, e))
                    /\ reused' = (reused \/ e.id \in retired)
                    /\ UNCHANGED <<parserVars, docxVars, current_style, retired>>

\* lines 378-413; the tree's selection is row i, the form holds `form`
save_changes(i, form, answer) ==
    /\ i \in 1..Len(library)
    /\ LET lib == [library EXCEPT ![i] = Edited(@, form)]
       IN  /\ library' = lib
           /\ current_txt_path' = SavePath(current_txt_path, answer)
           /\ files' = Saved(files, current_txt_path, answer, lib)
    /\ UNCHANGED <<parserVars, docxVars, current_style, next_id, retired, reused>>

\* lines 513-518
save_as_txt(answer) ==
    /\ answer # ""
    /\ current_txt_path' = answer
    /\ files' = Saved(files, answer, answer, library)
    /\ UNCHANGED <<parserVars, docxVars, library, current_style, next_id,
                   retired, reused>>

\* lines 520-532; the dialog gives the existing file `path`
load_txt(path) ==
    /\ files[path].exists
    /\ Len(files[path].lines) <= MaxLibrary
    /\ library' = files[path].lines
    /\ next_id' = NextIdAfterLoad(files[path].lines)
    /\ current_txt_path' = path
    /\ UNCHANGED <<parserVars, docxVars, current_style, files, retired, reused>>

\* lines 537-548: the document opened is doc; what is saved is doc'
process_docx ==
    /\ dpc = "opened"
    /\ LET r == replace_ids(doc, library, current_style)
       IN  /\ id_map' = r.id_map
           /\ doc' = insert_refs(r.paragraphs, library, r.id_map, current_style)
    /\ dpc' = "processed"
    /\ UNCHANGED <<parserVars, orig, cite, library, current_style, managerVars>>

\* apa_citation called on entry i of the library
ApaCitation(i) ==
    /\ dpc = "opened"
    /\ i \in 1..Len(library)
    /\ cite' = [entry |-> library[i], text |-> apa_citation(library[i])]
    /\ dpc' = "cited"
    /\ UNCHANGED <<parserVars, doc, orig, id_map, library, current_style, managerVars>>

(***************************************************************************)
(* The library's specification: the state after __init__ (lines 159-162), *)
(* and no library file written yet.                                        *)
(***************************************************************************)
Styles == {"APA7", "GB/T", "IEEE"}

NoFile == [exists |-> FALSE, lines |-> <<>>]

BlankForm ==
    [title |-> <<>>, authors |-> <<>>, year |-> <<>>, journal |-> <<>>, volume |-> <<>>,
     issue |-> <<>>, pages |-> <<>>, doi |-> <<>>, url |-> <<>>, raw_text |-> <<>>]

\* what the form holds when save_changes is clicked: every field cleared
Forms == {BlankForm}

InitLibrary ==
    /\ library = <<>>
    /\ current_style = "APA7"
    /\ next_id = 1
    /\ current_txt_path = NoPath
    /\ files = [p \in Paths |-> NoFile]
    /\ retired = {}
    /\ reused = FALSE
    /\ ParserIdle
    /\ DocxIdle

NextLibrary ==
    \/ \E answer \in DialogAnswers : add_entry(answer)
    \/ \E typed \in TypedCitations, answer \in DialogAnswers : add_from_string(typed, answer)
    \/ \E i \in 1..Len(library), answer \in DialogAnswers : delete_entry(i, answer)
    \/ \E i \in 1..Len(library), form \in Forms, answer \in DialogAnswers :
          save_changes(i, form, answer)
    \/ \E answer \in DialogAnswers : save_as_txt(answer)
    \/ \E path \in Paths : load_txt(path)

SpecLibrary == InitLibrary /\ [][NextLibrary]_vars

(***************************************************************************)
(* The DOCX specification: a document and a library are drawn, a style is  *)
(* chosen from the menu, and process_docx (or apa_citation alone) runs.    *)
(***************************************************************************)
MaxDocFragments == 3

Ref001 == FormatId(1)
Ref002 == FormatId(2)

\* the pieces the drawn paragraphs are made of: the placeholder of ref001, of
\* ref002, of an id no library has, an opening "[id:" and plain text
DocFragments ==
    << Token(Ref001),
       Token(Ref002),
       Token(<<"z", "z", "z">>),
       IdOpen,
       <<" ", "a", "n", "d", " ">> >>

\* a sequence of piece numbers as paragraphs: 0 ends a paragraph
RECURSIVE ParagraphTexts(_, _)
ParagraphTexts(f, current) ==
    IF f = <<>> THEN <<current>>
    ELSE IF Head(f) = 0 THEN <<current>> \o ParagraphTexts(Tail(f), <<>>)
    ELSE ParagraphTexts(Tail(f), current \o DocFragments[Head(f)])

AsParagraphs(texts) == [i \in 1..Len(texts) |-> [kind |-> "paragraph", text |-> texts[i]]]

Documents ==
    {<<>>} \cup
    {AsParagraphs(ParagraphTexts(f, <<>>)) :
        f \in UNION {[1..k -> 0..Len(DocFragments)] : k \in 0..MaxDocFragments}}

Author(family) == [family |-> family, given |-> <<"X">>]

Entry(id, families, year, title) ==
    WithId([EmptyRecord EXCEPT
               !.authors = [i \in 1..Len(families) |-> Author(families[i])],
               !.year = year,
               !.title = title,
               !.journal = <<"J">>],
           id)

\* ref001 as add_entry makes it: no author, every field empty
Shell001 == WithId(EmptyRecord, Ref001)

Smith001 == Entry(Ref001, <<Smith>>, <<"2", "0", "2", "0">>, <<"T", "1">>)

\* ref001 as add_from_string makes it of "[id:ref002] (2020). T1. J": the
\* family name is the placeholder of ref002
Nested001 == Entry(Ref001, <<Token(Ref002)>>, <<"2", "0", "2", "0">>, <<"T", "1">>)

Pair002 == Entry(Ref002, <<Smith, Doe>>, <<"1", "9", "9", "5">>, <<"T", "2">>)

Trio002 == Entry(Ref002, <<<<"A">>, <<"B">>, <<"C">>>>, <<"2", "0", "2", "0">>, <<"T", "2">>)

Libraries ==
    { <<>>,
      <<Shell001>>,
      <<Smith001>>,
      <<Pair002>>,
      <<Smith001, Pair002>>,
      <<Trio002, Shell001>>,
      <<Nested001, Pair002>>,
      <<Trio002, Nested001>> }

InitDocx ==
    /\ doc \in Documents
    /\ orig = doc
    /\ id_map = <<>>
    /\ cite = <<>>
    /\ dpc = "opened"
    /\ library \in Libraries
    /\ current_style = "APA7"
    /\ next_id = 3
    /\ current_txt_path = NoPath
    /\ files = [p \in Paths |-> NoFile]
    /\ retired = {}
    /\ reused = FALSE
    /\ ParserIdle

NextDocx ==
    \/ \E style \in Styles : dpc = "opened" /\ set_style(style)
    \/ process_docx
    \/ \E i \in 1..Len(library) : ApaCitation(i)

SpecDocx == InitDocx /\ [][NextDocx]_vars

(***************************************************************************)
(* Properties of the parser, checked under SpecParser.                     *)
(***************************************************************************)
\* C1: parse_citation is total: for every input string it returns a record
\* and never raises.
C1_ParseCitationNeverRaises ==
    ppc = "parse_citation" => ~result.raised

\* "<digits>-<digits>" with a plain hyphen
IsDigitsHyphenDigits(p) ==
    \E k \in 2..(Len(p) - 1) :
        /\ p[k] = "-"
        /\ \A i \in 1..Len(p) : i # k => p[i] \in Digits

\* C8: for every input to parse_citation, the pages field of the returned
\* record is empty or of the form "<digits>-<digits>": white space removed
\* and the dash turned into a plain hyphen.
C8_PagesNormalized ==
    (ppc = "parse_citation" /\ ~result.raised) =>
        \/ result.record.pages = <<>>
        \/ IsDigitsHyphenDigits(result.record.pages)

\* a "Family, Given" segment: a non-empty family that does not begin with a
\* period, a comma, and after it something other than spaces, commas and periods
IsFamilyGivenSegment(seg) ==
    LET k == IndexFrom(seg, 1, ",")
        F == Strip(SubSeq(seg, 1, k - 1))
    IN  /\ k > 0
        /\ F # <<>>
        /\ F[1] # "."
        /\ RStrip(From(seg, k + 1), AuthorTrim) # <<>>

\* a list of "Family, Given" segments separated by ";"
IsFamilyGivenList(s) ==
    /\ s # <<>>
    /\ ~Contains(s, <<" ", "a", "n", "d", " ">>)
    /\ ~Contains(s, <<" ", "&", " ">>)
    /\ ~Contains(s, <<FullwidthSemicolon>>)
    /\ \A i \in 1..Len(Split(s, ";")) : IsFamilyGivenSegment(Split(s, ";")[i])

FamilyText(seg) == Strip(SubSeq(seg, 1, IndexFrom(seg, 1, ",") - 1))

GivenText(seg) == From(seg, IndexFrom(seg, 1, ",") + 1)

ReevesFamily == <<"R", "e", "e", "v", "e", "s">>

\* C7 as stated: one pair per segment in order, family the text before the
\* segment's first comma and given the text after it as written, so that the
\* given names of the two examples keep their final period.
C7_GivenAsWritten ==
    /\ (ppc = "smart_parse_authors" /\ IsFamilyGivenList(raw)) =>
          /\ ~result.raised
          /\ Len(result.authors) = Len(Split(raw, ";"))
          /\ \A i \in 1..Len(result.authors) :
                /\ result.authors[i].family = FamilyText(Split(raw, ";")[i])
                /\ result.authors[i].given = Strip(GivenText(Split(raw, ";")[i]))
    /\ (ppc = "smart_parse_authors" /\ raw = SmithDoe) =>
          result.authors = << [family |-> Smith, given |-> <<"J", ".">>],
                              [family |-> Doe, given |-> <<"A", ".">>] >>
    /\ (ppc = "parse_citation" /\ raw = Reeves) =>
          result.record.authors =
              << [family |-> ReevesFamily, given |-> <<"C", ".", " ", "R", ".">>] >>

\* C7 as amended: one pair per segment in order, family the text before the
\* segment's first comma, given the text after it less the spaces, commas and
\* periods that end the segment: the given names of the examples lose their
\* final period.
C7_GivenTrimmed ==
    /\ (ppc = "smart_parse_authors" /\ IsFamilyGivenList(raw)) =>
          /\ ~result.raised
          /\ Len(result.authors) = Len(Split(raw, ";"))
          /\ \A i \in 1..Len(result.authors) :
                /\ result.authors[i].family = FamilyText(Split(raw, ";")[i])
                /\ result.authors[i].given =
                      Strip(RStrip(GivenText(Split(raw, ";")[i]), AuthorTrim))
    /\ (ppc = "smart_parse_authors" /\ raw = SmithDoe) =>
          result.authors = << [family |-> Smith, given |-> <<"J">>],
                              [family |-> Doe, given |-> <<"A">>] >>
    /\ (ppc = "parse_citation" /\ raw = Reeves) =>
          result.record.authors =
              << [family |-> ReevesFamily, given |-> <<"C", ".", " ", "R">>] >>

\* C7's case: the two-author example has been parsed
C7_Witness ==
    /\ ppc = "smart_parse_authors"
    /\ raw = SmithDoe
    /\ IsFamilyGivenList(raw)
    /\ Len(result.authors) = 2

(***************************************************************************)
(* Properties of the DOCX tools, checked under SpecDocx.  orig holds the   *)
(* paragraphs as drawn, doc the paragraphs after process_docx.             *)
(***************************************************************************)
Processed == dpc = "processed"

FirstIndex(ids, rid) == LeastIn(1, Len(ids), LAMBDA j : ids[j] = rid)

\* how many distinct raw ids stand before the first appearance of rid, plus one
RankOf(ids, rid) == Cardinality({ids[j] : j \in 1..(FirstIndex(ids, rid) - 1)}) + 1

NumberOf(map, rid) == map[LeastIn(1, Len(map), LAMBDA j : map[j].rid = rid)].num

\* C2: the id map of replace_ids gives the k-th distinct raw id met, paragraphs
\* top to bottom and each left to right, the number k; a raw id met again keeps
\* its number, so the numbers are exactly 1..n for n distinct raw ids.
C2_FirstAppearanceNumbering ==
    Processed =>
        LET ids == AllIds(orig)
            distinct == {ids[j] : j \in 1..Len(ids)}
        IN  /\ {id_map[k].rid : k \in 1..Len(id_map)} = distinct
            /\ Len(id_map) = Cardinality(distinct)
            /\ {id_map[k].num : k \in 1..Len(id_map)} = 1..Cardinality(distinct)
            /\ \A rid \in distinct : NumberOf(id_map, rid) = RankOf(ids, rid)

\* two distinct raw ids, the first of them met a second time after the other
C2_Witness ==
    /\ Processed
    /\ Len(id_map) = 2
    /\ \E i, j, k \in 1..Len(AllIds(orig)) :
           /\ i < j /\ j < k
           /\ AllIds(orig)[i] = AllIds(orig)[k]
           /\ AllIds(orig)[i] # AllIds(orig)[j]

RECURSIVE CountFrom(_, _, _)
CountFrom(text, i, pat) ==
    IF i + Len(pat) - 1 > Len(text) THEN 0
    ELSE IF StartsWithAt(text, i, pat) THEN 1 + CountFrom(text, i + Len(pat), pat)
    ELSE CountFrom(text, i + 1, pat)

Occurrences(text, pat) == CountFrom(text, 1, pat)

Body == SubSeq(doc, 1, Len(orig))

\* C3: after replace_ids every occurrence of the placeholder token of a raw id
\* that has no record in the library is still in its paragraph, whatever other
\* tokens of the paragraph were substituted.
C3_UnknownTokensUnchanged ==
    Processed =>
        \A i \in 1..Len(orig) :
            \A k \in 1..Len(id_map) :
                Lookup(library, id_map[k].rid) = 0 =>
                    Occurrences(Body[i].text, Token(id_map[k].rid))
                        >= Occurrences(orig[i].text, Token(id_map[k].rid))

KnownPairs == SelectSeq(id_map, LAMBDA pair : Lookup(library, pair.rid) # 0)

KnownAt(text, i) ==
    LeastIn(1, Len(KnownPairs), LAMBDA k : StartsWithAt(text, i, Token(KnownPairs[k].rid)))

\* the text with each literal occurrence of a token that has a record replaced
\* by that record's replacement, and nothing else touched
RECURSIVE EachOccurrenceReplaced(_, _)
EachOccurrenceReplaced(text, i) ==
    IF i > Len(text) THEN <<>>
    ELSE LET k == KnownAt(text, i)
         IN  IF k = 0 THEN <<text[i]>> \o EachOccurrenceReplaced(text, i + 1)
             ELSE Replacement(library[Lookup(library, KnownPairs[k].rid)],
                              KnownPairs[k].num, current_style)
                      \o EachOccurrenceReplaced(text, i + Len(Token(KnownPairs[k].rid)))

\* C4: after replace_ids every literal occurrence of the token of a raw id that
\* has a record stands replaced by apa_citation(record) under "APA7" and by
\* "[<number>]" under a numeric style, the outcome for one raw id not depending
\* on the order the other raw ids are substituted in.
C4_KnownTokensReplaced ==
    Processed =>
        \A i \in 1..Len(orig) : Body[i].text = EachOccurrenceReplaced(orig[i].text, 1)

\* C5: apa_citation gives "(Unknown, <year>)" for no author, "(<family>, <year>)"
\* for one, "(<family1> & <family2>, <year>)" for two and
\* "(<family1> et al., <year>)" for three or more, the year as it is, empty
\* included.
C5_ApaCitationTemplates ==
    dpc = "cited" =>
        LET a == cite.entry.authors
            tail == <<",", " ">> \o cite.entry.year \o <<")">>
        IN  /\ Len(a) = 0 => cite.text = <<"(", "U", "n", "k", "n", "o", "w", "n">> \o tail
            /\ Len(a) = 1 => cite.text = <<"(">> \o a[1].family \o tail
            /\ Len(a) = 2 =>
                   cite.text = <<"(">> \o a[1].family \o <<" ", "&", " ">> \o a[2].family \o tail
            /\ Len(a) >= 3 =>
                   cite.text = <<"(">> \o a[1].family \o <<" ", "e", "t", " ", "a", "l", ".">> \o tail

\* a record of two authors rendered
C5_Witness ==
    /\ dpc = "cited"
    /\ Len(cite.entry.authors) = 2
    /\ cite.entry.year # <<>>

Added == SubSeq(doc, Len(orig) + 1, Len(doc))

\* C6: insert_refs appends the heading and then one line
\* "[<number>] <title>. <journal> (<year>)." for each pair of the id map whose
\* record is found, in strictly ascending order of the numbers replace_ids
\* gave; a pair without a record gives no line.
C6_ReferenceList ==
    Processed =>
        /\ Len(Added) = 1 + Len(KnownPairs)
        /\ Added[1] = [kind |-> "heading", text |-> HeadingText(current_style)]
        /\ \A j \in 1..Len(KnownPairs) :
               LET e == library[Lookup(library, KnownPairs[j].rid)]
               IN  /\ Added[j + 1].kind = "paragraph"
                   /\ Added[j + 1].text =
                          <<"[">> \o IntToStr(NumberOf(id_map, KnownPairs[j].rid)) \o <<"]", " ">>
                              \o e.title \o <<".", " ">> \o e.journal
                              \o <<" ", "(">> \o e.year \o <<")", ".">>
        /\ \A j \in 1..(Len(KnownPairs) - 1) : KnownPairs[j].num < KnownPairs[j + 1].num

\* a line is written for a number above the number of a raw id without a record
C6_Witness ==
    /\ Processed
    /\ \E j, k \in 1..Len(id_map) :
           /\ id_map[j].num < id_map[k].num
           /\ Lookup(library, id_map[j].rid) = 0
           /\ Lookup(library, id_map[k].rid) # 0

(***************************************************************************)
(* Properties of the library, checked under SpecLibrary.                   *)
(***************************************************************************)
LibraryIds == [i \in 1..Len(library) |-> library[i].id]

\* C9: an id given to a record that was then deleted is never given to a record
\* created later, over add_entry, add_from_string, delete_entry, the saves and
\* load_txt of a file the program saved.
C9_IdNeverReused == reused = FALSE

UniqueIds == \A i, j \in 1..Len(library) : library[i].id = library[j].id => i = j

\* every id in the library is below the id the next record gets
BelowNextId == \A i \in 1..Len(library) : IdNumber(library[i].id) < next_id

\* what a step may do to the ids in the library: keep them, add the id of a new
\* record at the end, drop the id of a deleted record, or take the ids of a file
IdsKept ==
    \/ LibraryIds' = LibraryIds
    \/ LibraryIds' = Append(LibraryIds, FormatId(next_id))
    \/ \E i \in 1..Len(library) : LibraryIds' = RemoveAt(LibraryIds, i)
    \/ \E path \in Paths : files[path].exists /\ library' = files[path].lines

\* C10: no two records of the library share an id and the id of a record never
\* changes, over add_entry, add_from_string, delete_entry, save_changes and
\* load_txt; after load_txt next_id is above every loaded number, so ids made
\* afterwards do not collide.
C10_UniqueStableIds == [](UniqueIds /\ BelowNextId) /\ [][IdsKept]_vars

\* a record created after load_txt stands beside a loaded one
C10_Witness ==
    /\ reused
    /\ Len(library) = 2
    /\ library[1].id # library[2].id

=============================================================================
